---- MODULE Spec2Model ----
(***************************************************************************)
(* Model of update-route53-host-records: the Lambda handler, register_host *)
(* and its helpers (get_hostname, get_dns_domain, get_aliases, the two     *)
(* zone lookups and change_record).                                        *)
(*                                                                         *)
(* A Python str is a sequence of tokens.  A token is one of the separator  *)
(* characters ".", ",", " ", "/" or a word that contains none of them, so  *)
(* split, join, strip and format are computed on the tokens as Python      *)
(* computes them on characters.  Python's None is the value None below.    *)
(***************************************************************************)
EXTENDS Integers, Sequences, FiniteSets, TLC

VARIABLES
    zones,        \* Route53 hosted zones, in list_hosted_zones order
    raw_tags,     \* the instance's "Tags" list as describe_instances returns it
    dns,          \* record sets held by Route53
    table,        \* items of the DynamoDB table
    pending,      \* number of events still to be delivered to the handler
    pc,           \* position of the running invocation
    event,        \* the event being handled
    facts,        \* locals of register_host read from the instance
    ident,        \* locals hostname / dns_domain / fqdn / ptr_record / arpa_zone
    records,      \* local list "records" of register_host
    todo,         \* alias settings still to be iterated by the current loop
    retval,       \* what register_host returned (or that it raised)
    submitted,    \* change_record calls of this run, in order, with outcome
    lookups,      \* zone lookups of this run, in order
    resolved,     \* identity resolutions of this run, in order
    zl,           \* input and result of one stand-alone zone lookup
    dd            \* input and result of one stand-alone get_dns_domain call

vars == <<zones, raw_tags, dns, table, pending, pc, event, facts, ident,
          records, todo, retval, submitted, lookups, resolved, zl, dd>>

-----------------------------------------------------------------------------
(* Bounds *)

MaxZones == 2
MaxEvents == 2
MaxCount == 2

-----------------------------------------------------------------------------
(* Python values and str methods *)

None == <<"<None>">>
EmptyList == <<"<list>">>

S(w) == <<w>>

RECURSIVE SplitAcc(_, _, _, _)
SplitAcc(s, sep, cur, acc) ==
    IF s = <<>> THEN Append(acc, cur)
    ELSE IF Head(s) = sep THEN SplitAcc(Tail(s), sep, <<>>, Append(acc, cur))
    ELSE SplitAcc(Tail(s), sep, Append(cur, Head(s)), acc)

Split(s, sep) == SplitAcc(s, sep, <<>>, <<>>)

RECURSIVE Join(_, _)
Join(parts, sep) ==
    IF parts = <<>> THEN <<>>
    ELSE IF Len(parts) = 1 THEN parts[1]
    ELSE parts[1] \o <<sep>> \o Join(Tail(parts), sep)

RECURSIVE LStrip(_)
LStrip(s) == IF s # <<>> /\ Head(s) = " " THEN LStrip(Tail(s)) ELSE s

RECURSIVE RStrip(_)
RStrip(s) ==
    IF s # <<>> /\ s[Len(s)] = " " THEN RStrip(SubSeq(s, 1, Len(s) - 1)) ELSE s

Strip(s) == RStrip(LStrip(s))

Dot(a, b) == a \o <<".">> \o b

Slash(a, b) == a \o <<"/">> \o b

DictGet(d, k, default) == IF k \in DOMAIN d THEN d[k] ELSE default

-----------------------------------------------------------------------------
(* helpers.py *)

hostname_tag_name_account_tag ==
    S("fn.aws.joshhogle.com/update-route53-host-records/tags/hostname")
default_hostname_tag_name ==
    S("fn.aws.joshhogle.com/update-route53-host-records/hostname")
dns_domain_tag_name_account_tag ==
    S("fn.aws.joshhogle.com/update-route53-host-records/tags/dns_domain")
default_dns_domain_tag_name ==
    S("fn.aws.joshhogle.com/update-route53-host-records/dns_domain")
aliases_tag_name_account_tag ==
    S("fn.aws.joshhogle.com/update-route53-host-records/tags/aliases")
default_aliases_tag_name ==
    S("fn.aws.joshhogle.com/update-route53-host-records/aliases")

RECURSIVE tags_to_dict(_)
tags_to_dict(ts) ==
    IF ts = <<>> THEN << >>
    ELSE LET t == ts[Len(ts)]
             rest == tags_to_dict(SubSeq(ts, 1, Len(ts) - 1))
         IN IF t.Key = None \/ t.Value = None THEN rest
            ELSE [k \in DOMAIN rest \cup {t.Key} |->
                    IF k = t.Key THEN t.Value ELSE rest[k]]

-----------------------------------------------------------------------------
(* route53_helpers.py: zone lookups.  A lookup returns the zone id (or     *)
(* None) together with the Route53 calls it made: whether it listed the    *)
(* hosted zones and the ids it passed to get_hosted_zone.                  *)

PlaceholderDomain == <<"{}", ".", "compute", ".", "internal">>

DefaultDomain(region) == region \o <<".", "compute", ".", "internal">>

RECURSIVE PublicFor(_, _, _)
PublicFor(hosted_zones, check_zone, i) ==
    IF i > Len(hosted_zones) THEN None
    ELSE IF ~hosted_zones[i].PrivateZone /\ hosted_zones[i].Name = check_zone
         THEN hosted_zones[i].Id
    ELSE PublicFor(hosted_zones, check_zone, i + 1)

RECURSIVE PublicWhile_ShortestFirst(_, _)
PublicWhile_ShortestFirst(hosted_zones, zone_parts) ==
    IF Len(zone_parts) < 2 THEN None
    ELSE LET shorter == PublicWhile_ShortestFirst(hosted_zones, Tail(zone_parts))
         IN IF shorter # None THEN shorter
            ELSE PublicFor(hosted_zones, Join(zone_parts, ".") \o <<".">>, 1)

RECURSIVE PublicWhile(_, _)
PublicWhile(hosted_zones, zone_parts) ==
    IF Len(zone_parts) < 2 THEN None
    ELSE LET hit == PublicFor(hosted_zones, Join(zone_parts, ".") \o <<".">>, 1)
         IN IF hit # None THEN hit
            ELSE PublicWhile(hosted_zones, Tail(zone_parts))

get_public_zone_id(hosted_zones, zone_name) ==
    IF zone_name = None \/ zone_name = <<>>
    THEN [id |-> None, listed |-> FALSE, queried |-> <<>>]
    ELSE [id |-> PublicWhile(hosted_zones, Split(zone_name, ".")),
          listed |-> TRUE, queried |-> <<>>]

RECURSIVE PrivateFor_Unverified(_, _, _, _, _)
PrivateFor_Unverified(hosted_zones, vpc_id, check_zone, i, queried) ==
    IF i > Len(hosted_zones) THEN [id |-> None, queried |-> queried]
    ELSE IF hosted_zones[i].PrivateZone /\ hosted_zones[i].Name = check_zone
         THEN [id |-> hosted_zones[i].Id, queried |-> queried]
    ELSE PrivateFor_Unverified(hosted_zones, vpc_id, check_zone, i + 1, queried)

RECURSIVE PrivateFor(_, _, _, _, _)
PrivateFor(hosted_zones, vpc_id, check_zone, i, queried) ==
    IF i > Len(hosted_zones) THEN [id |-> None, queried |-> queried]
    ELSE LET zone == hosted_zones[i]
         IN IF zone.PrivateZone /\ zone.Name = check_zone
            THEN IF vpc_id \in zone.VPCs
                 THEN [id |-> zone.Id, queried |-> Append(queried, zone.Id)]
                 ELSE PrivateFor(hosted_zones, vpc_id, check_zone, i + 1,
                                 Append(queried, zone.Id))
            ELSE PrivateFor(hosted_zones, vpc_id, check_zone, i + 1, queried)

RECURSIVE PrivateWhile(_, _, _, _)
PrivateWhile(hosted_zones, vpc_id, zone_parts, queried) ==
    IF Len(zone_parts) < 2 THEN [id |-> None, queried |-> queried]
    ELSE LET r == PrivateFor(hosted_zones, vpc_id,
                             Join(zone_parts, ".") \o <<".">>, 1, queried)
         IN IF r.id # None THEN r
            ELSE PrivateWhile(hosted_zones, vpc_id, Tail(zone_parts), r.queried)

get_private_zone_id(hosted_zones, vpc_id, region, zone_name) ==
    IF zone_name = None \/ zone_name = <<>>
    THEN [id |-> None, listed |-> FALSE, queried |-> <<>>]
    ELSE IF zone_name = PlaceholderDomain
    THEN [id |-> None, listed |-> FALSE, queried |-> <<>>]
    ELSE LET r == PrivateWhile(hosted_zones, vpc_id, Split(zone_name, "."), <<>>)
         IN [id |-> r.id, listed |-> TRUE, queried |-> r.queried]

-----------------------------------------------------------------------------
(* ec2_helpers.py *)

get_hostname_defaulted(tags) ==
    LET hostname_tag == DictGet(tags, hostname_tag_name_account_tag,
                                default_hostname_tag_name)
        hostname == DictGet(tags, hostname_tag, None)
    IN IF hostname = None THEN DictGet(tags, S("Name"), S("localhost"))
       ELSE hostname

get_hostname(tags) ==
    LET hostname_tag == DictGet(tags, hostname_tag_name_account_tag,
                                default_hostname_tag_name)
        hostname == DictGet(tags, hostname_tag, None)
    IN IF hostname = None THEN DictGet(tags, S("Name"), None) ELSE hostname

RECURSIVE DomainNameOf_FirstValue(_)
DomainNameOf_FirstValue(dhcp_configs) ==
    IF dhcp_configs = <<>> THEN None
    ELSE IF Head(dhcp_configs).Key = S("domain-name")
            /\ Len(Head(dhcp_configs).Values) >= 1
         THEN Head(dhcp_configs).Values[1]
    ELSE DomainNameOf_FirstValue(Tail(dhcp_configs))

RECURSIVE DomainNameOf(_)
DomainNameOf(dhcp_configs) ==
    IF dhcp_configs = <<>> THEN None
    ELSE IF Head(dhcp_configs).Key = S("domain-name")
            /\ Len(Head(dhcp_configs).Values) = 1
         THEN Head(dhcp_configs).Values[1]
    ELSE DomainNameOf(Tail(dhcp_configs))

get_dhcp_options_domain(ec2) ==
    IF Len(ec2.Vpcs) # 1 THEN None
    ELSE IF ec2.Vpcs[1].DhcpOptionsId = None THEN None
    ELSE IF Len(ec2.DhcpOptions) # 1 THEN None
    ELSE DomainNameOf(ec2.DhcpOptions[1].DhcpConfigurations)

get_dns_domain(ec2, region, tags) ==
    LET dns_domain_tag == DictGet(tags, dns_domain_tag_name_account_tag,
                                  default_dns_domain_tag_name)
        dns_domain == DictGet(tags, dns_domain_tag, None)
        dhcp_options_domain == get_dhcp_options_domain(ec2)
    IN IF dns_domain # None
       THEN [domain |-> dns_domain, dhcp_queried |-> FALSE]
       ELSE [domain |-> IF dhcp_options_domain # None THEN dhcp_options_domain
                        ELSE DefaultDomain(region),
             dhcp_queried |-> TRUE]

-----------------------------------------------------------------------------
(* route53_helpers.py: get_aliases and change_record *)

NotLooked == [vis |-> "none", zone_name |-> None, id |-> None,
              listed |-> FALSE, queried |-> <<>>]

Looked(vis, zone_name, r) ==
    [vis |-> vis, zone_name |-> zone_name, id |-> r.id,
     listed |-> r.listed, queried |-> r.queried]

\* One iteration of the for loop of get_aliases.
alias_settings(hosted_zones, vpc_id, region, tags, tag_base, alias_type, default_dns_domain, alias) ==
    LET tagged == DictGet(tags, Slash(tag_base, S("hostname")), None)
        raw == IF tagged = None THEN alias ELSE tagged
        parts == Split(raw, ".")
        hostname == IF Len(parts) = 1 THEN raw ELSE parts[1]
        dns_domain == IF Len(parts) = 1 THEN default_dns_domain
                      ELSE Join(Tail(parts), ".")
        fqdn == IF Len(parts) = 1 THEN Dot(raw, dns_domain) ELSE hostname
        tag_zone == DictGet(tags, Slash(tag_base, S("zone_id")), None)
        look == IF tag_zone # None THEN NotLooked
                ELSE IF alias_type = "private"
                THEN Looked("private", dns_domain,
                            get_private_zone_id(hosted_zones, vpc_id, region,
                                                dns_domain))
                ELSE IF alias_type = "public"
                THEN Looked("public", dns_domain,
                            get_public_zone_id(hosted_zones, dns_domain))
                ELSE NotLooked
    IN [alias |-> alias, raw |-> raw, hostname |-> hostname,
        dns_domain |-> dns_domain, fqdn |-> fqdn,
        zone_id |-> IF tag_zone # None THEN tag_zone ELSE look.id,
        look |-> look]

\* settings[alias] = ... for each iteration in turn: a key keeps the position
\* of its first insertion and the value of its last.
RECURSIVE DictInsertAll(_, _)
DictInsertAll(settings, each) ==
    IF each = <<>> THEN settings
    ELSE LET e == Head(each)
             at == { i \in 1..Len(settings) : settings[i].alias = e.alias }
         IN DictInsertAll(
              IF at = {} THEN Append(settings, e)
              ELSE [i \in 1..Len(settings) |-> IF i \in at THEN e ELSE settings[i]],
              Tail(each))

get_aliases(hosted_zones, vpc_id, region, tags, aliases_tag, alias_type, default_dns_domain) ==
    LET aliases == DictGet(tags, Slash(aliases_tag, S(alias_type)), EmptyList)
        toks == Split(aliases, ",")
        each == [i \in 1..Len(toks) |->
                   alias_settings(hosted_zones, vpc_id, region, tags,
                                  Slash(Slash(aliases_tag, S(alias_type)),
                                        Strip(toks[i])),
                                  alias_type, default_dns_domain, Strip(toks[i]))]
    IN IF aliases = EmptyList
       THEN [raised |-> TRUE, each |-> <<>>, settings |-> <<>>]
       ELSE [raised |-> FALSE, each |-> each,
             settings |-> DictInsertAll(<<>>, each)]

DnsChange(zone_id, type, name, data) ==
    [zone_id |-> zone_id, type |-> type, name |-> name, data |-> data]

\* The record sets of Route53 after an accepted UPSERT.
Upsert(sets, zone_id, type, name, data) ==
    { r \in sets : ~(r.zone_id = zone_id /\ r.type = type /\ r.name = name) }
    \cup { DnsChange(zone_id, type, name, data) }

\* change_record: ok is whether change_resource_record_sets accepted the
\* change; a rejection is logged and swallowed.
change_record(action, zone_id, record_type, record_name, record_data, ok) ==
    /\ dns' = IF ok /\ action = "UPSERT"
              THEN Upsert(dns, zone_id, record_type, record_name \o <<".">>,
                          record_data)
              ELSE dns
    /\ submitted' = Append(submitted,
                           [action |-> action, zone_id |-> zone_id,
                            type |-> record_type,
                            record_name |-> record_name,
                            name |-> record_name \o <<".">>,
                            data |-> record_data, ok |-> ok])

-----------------------------------------------------------------------------
(* Environment of a stand-alone zone lookup *)

ZoneIds == <<"Z1", "Z2", "Z3", "Z4", "Z5", "Z6">>

Regions == {S("r1"), S("r2")}

VpcA == S("vpc-1")
VpcB == S("vpc-2")

ZoneNames ==
    { <<"c", ".">>,
      <<"b", ".", "c", ".">>,
      <<"a", ".", "b", ".", "c", ".">>,
      <<"compute", ".", "internal", ".">>,
      <<"r1", ".", "compute", ".", "internal", ".">> }

ZoneKinds ==
    { [Name |-> n, PrivateZone |-> FALSE, VPCs |-> {}] : n \in ZoneNames }
    \cup { [Name |-> n, PrivateZone |-> TRUE, VPCs |-> {v}] :
             n \in ZoneNames, v \in {VpcA, VpcB} }

WithIds(ks) ==
    [i \in 1..Len(ks) |->
        [Id |-> S(ZoneIds[i]), Name |-> ks[i].Name,
         PrivateZone |-> ks[i].PrivateZone, VPCs |-> ks[i].VPCs]]

ZoneLists ==
    { WithIds(ks) : ks \in UNION { [1..n -> ZoneKinds] : n \in 0..MaxZones } }

LookupNames ==
    { <<>>,
      <<"c">>,
      <<"b", ".", "c">>,
      <<"a", ".", "b", ".", "c">>,
      <<"x", ".", "a", ".", "b", ".", "c">>,
      PlaceholderDomain }
    \cup { DefaultDomain(r) : r \in Regions }

NoLookup == [phase |-> "none", vis |-> "none", vpc_id |-> None, region |-> None,
             zone_name |-> None, id |-> None, listed |-> FALSE, queried |-> <<>>]

NoDomainCall == [phase |-> "none", region |-> None, ec2 |-> <<>>,
                 domain |-> None, dhcp_queried |-> FALSE]

NoEvent == [state |-> "none", region |-> None, instance_id |-> None,
            outcome |-> "none"]
NoFacts == [public_ip |-> None, private_ip |-> None, vpc_id |-> None]
NoIdent == [hostname |-> None, dns_domain |-> None, fqdn |-> None,
            ptr_record |-> None, arpa_zone |-> None, dhcp_queried |-> FALSE]
NoReturn == [kind |-> "none", list |-> <<>>]

IdleRun ==
    /\ pc = "idle"
    /\ event = NoEvent
    /\ facts = NoFacts
    /\ ident = NoIdent
    /\ records = <<>>
    /\ todo = <<>>
    /\ retval = NoReturn
    /\ submitted = <<>>
    /\ lookups = <<>>
    /\ resolved = <<>>

ZoneInit ==
    /\ zones \in ZoneLists
    /\ raw_tags = <<>>
    /\ dns = {}
    /\ table = {}
    /\ pending = 0
    /\ IdleRun
    /\ dd = NoDomainCall
    /\ \E vis \in {"public", "private"}, r \in Regions, n \in LookupNames :
         zl = [NoLookup EXCEPT !.phase = "input", !.vis = vis, !.vpc_id = VpcA,
                               !.region = r, !.zone_name = n]

ZoneLookup ==
    /\ zl.phase = "input"
    /\ LET r == IF zl.vis = "private"
                THEN get_private_zone_id(zones, zl.vpc_id, zl.region, zl.zone_name)
                ELSE get_public_zone_id(zones, zl.zone_name)
       IN zl' = [zl EXCEPT !.phase = "done", !.id = r.id, !.listed = r.listed,
                           !.queried = r.queried]
    /\ UNCHANGED <<zones, raw_tags, dns, table, pending, pc, event, facts,
                   ident, records, todo, retval, submitted, lookups, resolved,
                   dd>>

ZoneNext == ZoneLookup

ZoneSpec == ZoneInit /\ [][ZoneNext]_vars

-----------------------------------------------------------------------------
(* Environment of the handler *)

Tag(k, v) == [Key |-> k, Value |-> v]

CorpInternal == <<"corp", ".", "internal">>
ExampleCom == <<"example", ".", "com">>
PrivateIp == <<"10", ".", "1", ".", "2", ".", "3">>
PublicIp == <<"54", ".", "0", ".", "0", ".", "1">>
InstanceId == S("i-1")
Region == S("r1")

HostnameTagOptions ==
    { <<>>,
      <<Tag(S("Name"), S("web1"))>>,
      <<Tag(default_hostname_tag_name, S("web1"))>>,
      <<Tag(default_hostname_tag_name, Dot(S("web1"), CorpInternal))>>,
      <<Tag(default_hostname_tag_name, <<"web1", ".", "com">>)>>,
      <<Tag(hostname_tag_name_account_tag, S("myhost")),
        Tag(S("myhost"), S("web2")), Tag(S("Name"), None)>> }

DomainTagOptions ==
    { <<>>,
      <<Tag(default_dns_domain_tag_name, CorpInternal)>>,
      <<Tag(default_dns_domain_tag_name, S("local"))>> }

AliasKey(alias_type) == Slash(default_aliases_tag_name, S(alias_type))

PrivateAliasTagOptions ==
    { <<>>,
      <<Tag(AliasKey("private"), S("db"))>>,
      <<Tag(AliasKey("private"),
            <<"db", ",", " ", "db2", ".", "corp", ".", "internal">>)>>,
      <<Tag(AliasKey("private"), S("db")),
        Tag(Slash(Slash(AliasKey("private"), S("db")), S("hostname")),
            Dot(S("data"), CorpInternal))>>,
      <<Tag(AliasKey("private"), S("db")),
        Tag(Slash(Slash(AliasKey("private"), S("db")), S("zone_id")),
            S("ZTAG"))>> }

PublicAliasTagOptions ==
    { <<>>,
      <<Tag(AliasKey("public"), <<"www", ",", " ", "api">>)>>,
      <<Tag(AliasKey("public"), Dot(S("www"), ExampleCom))>> }

TagLists ==
    { h \o d \o a \o b :
        h \in HostnameTagOptions, d \in DomainTagOptions,
        a \in PrivateAliasTagOptions, b \in PublicAliasTagOptions }

Zone(id, name, private, vpcs) ==
    [Id |-> id, Name |-> name, PrivateZone |-> private, VPCs |-> vpcs]

CorpZones ==
    << Zone(S("Z1"), CorpInternal \o <<".">>, TRUE, {VpcB}),
       Zone(S("Z2"), CorpInternal \o <<".">>, TRUE, {VpcA}),
       Zone(S("Z3"), <<"2", ".", "1", ".", "10", ".", "in-addr", ".", "arpa", ".">>,
            TRUE, {VpcA}),
       Zone(S("Z4"), CorpInternal \o <<".">>, FALSE, {}),
       Zone(S("Z5"), ExampleCom \o <<".">>, FALSE, {}) >>

ZoneConfigs == { <<>>, CorpZones }

\* Answers of describe_vpcs / describe_dhcp_options.
DhcpSet(values) ==
    [Vpcs |-> <<[DhcpOptionsId |-> S("dopt-1")]>>,
     DhcpOptions |-> <<[DhcpConfigurations |->
                          <<[Key |-> S("domain-name-servers"),
                             Values |-> <<S("AmazonProvidedDNS")>>],
                            [Key |-> S("domain-name"), Values |-> values]>>]>>]

Ec2Answers ==
    { DhcpSet(<<CorpInternal>>),
      DhcpSet(<<CorpInternal, ExampleCom>>),
      DhcpSet(<<>>),
      [Vpcs |-> <<>>, DhcpOptions |-> <<>>],
      [Vpcs |-> <<[DhcpOptionsId |-> None]>>, DhcpOptions |-> <<>>],
      [Vpcs |-> <<[DhcpOptionsId |-> S("dopt-1")]>>, DhcpOptions |-> <<>>] }

\* Answers of describe_instances for the instance of the event.
InstanceAnswers ==
    [nReservations : {0, 1}, nInstances : {1, 2},
     PublicIpAddress : {<<>>, PublicIp},
     PrivateIpAddress : {<<>>, PrivateIp},
     VpcId : {<<>>, VpcA}]

EventStates == {"pending", "running", "shutting-down", "stopping", "terminated"}

Init ==
    /\ zones \in ZoneConfigs
    /\ raw_tags \in TagLists
    /\ dns = {}
    /\ table = {}
    /\ pending = 1
    /\ IdleRun
    /\ zl = NoLookup
    /\ dd = NoDomainCall

-----------------------------------------------------------------------------
(* lambda_function.py: lambda_handler, up to the call of register_host or   *)
(* unregister_host.  enabled is whether the account's state tag holds one   *)
(* of the enabled values.                                                   *)

Begin(state, outcome, next) ==
    /\ pc \in {"idle", "done"}
    /\ pending > 0
    /\ pending' = pending - 1
    /\ event' = [state |-> state, region |-> Region, instance_id |-> InstanceId,
                 outcome |-> outcome]
    /\ pc' = next
    /\ facts' = NoFacts
    /\ ident' = NoIdent
    /\ records' = <<>>
    /\ todo' = <<>>
    /\ retval' = NoReturn
    /\ submitted' = <<>>
    /\ lookups' = <<>>
    /\ resolved' = <<>>
    /\ UNCHANGED <<zones, raw_tags, dns, table, zl, dd>>

HandleOtherState ==
    \E st \in EventStates \ {"running", "shutting-down", "stopping"} :
        Begin(st, "nothing to do", "done")

HandleDisabledAccount ==
    \E st \in {"running", "shutting-down", "stopping"} :
        Begin(st, "account disabled", "done")

\* unregister_host is "pass"
unregister_host(instance_id) == UNCHANGED <<dns, table>>

HandleLeaving ==
    \E st \in {"shutting-down", "stopping"} :
        /\ Begin(st, "unregistered", "done")
        /\ unregister_host(InstanceId)

HandleRunning == Begin("running", "running", "describe_instances")

-----------------------------------------------------------------------------
(* route53_helpers.py: register_host, one action per step *)

Tags == tags_to_dict(raw_tags)

AliasesTag ==
    DictGet(Tags, aliases_tag_name_account_tag, default_aliases_tag_name)

Raise ==
    /\ pc' = "done"
    /\ retval' = [kind |-> "raised", list |-> <<>>]
    /\ event' = [event EXCEPT !.outcome = "raised"]

\* return <value>: back in lambda_handler, before put_item
Return(kind, list) ==
    /\ pc' = "put_item"
    /\ retval' = [kind |-> kind, list |-> list]
    /\ UNCHANGED event

\* lines 155-183
DescribeInstances ==
    /\ pc = "describe_instances"
    /\ \E a \in InstanceAnswers :
         IF \/ a.nReservations # 1 \/ a.nInstances # 1
            \/ a.PrivateIpAddress = <<>> \/ a.VpcId = <<>>
         THEN /\ Raise
              /\ UNCHANGED facts
         ELSE /\ facts' = [public_ip |-> IF a.PublicIpAddress = <<>> THEN None
                                         ELSE a.PublicIpAddress,
                           private_ip |-> a.PrivateIpAddress,
                           vpc_id |-> a.VpcId]
              /\ pc' = "get_hostname"
              /\ UNCHANGED <<retval, event>>
    /\ UNCHANGED <<zones, raw_tags, dns, table, pending, ident, records, todo,
                   submitted, lookups, resolved, zl, dd>>

\* lines 186-206
ResolveCanonical ==
    /\ pc = "get_hostname"
    /\ \E ec2 \in Ec2Answers :
         LET raw == get_hostname(Tags)
             parts == Split(raw, ".")
             dom == get_dns_domain(ec2, event.region, Tags)
             hostname == IF Len(parts) = 1 THEN raw ELSE parts[1]
             dns_domain == IF Len(parts) = 1 THEN dom.domain
                           ELSE Join(Tail(parts), ".")
             fqdn == IF Len(parts) = 1 THEN Dot(raw, dns_domain) ELSE hostname
             octets == Split(facts.private_ip, ".")
         IN IF raw = None
            THEN /\ Return("list", records)
                 /\ UNCHANGED <<ident, resolved>>
            ELSE /\ ident' =
                      [hostname |-> hostname, dns_domain |-> dns_domain,
                       fqdn |-> fqdn,
                       ptr_record |->
                          Join(<<octets[4], octets[3], octets[2], octets[1],
                                 S("in-addr"), S("arpa")>>, "."),
                       arpa_zone |->
                          Join(<<octets[3], octets[2], octets[1],
                                 S("in-addr"), S("arpa")>>, "."),
                       dhcp_queried |-> Len(parts) = 1 /\ dom.dhcp_queried]
                 /\ resolved' = Append(resolved,
                                       [raw |-> raw, hostname |-> hostname,
                                        dns_domain |-> dns_domain, fqdn |-> fqdn])
                 /\ pc' = "canonical"
                 /\ UNCHANGED <<retval, event>>
    /\ UNCHANGED <<zones, raw_tags, dns, table, pending, facts, records, todo,
                   submitted, lookups, zl, dd>>

\* lines 208-221
RegisterCanonical ==
    /\ pc = "canonical"
    /\ LET r == get_private_zone_id(zones, facts.vpc_id, event.region,
                                    ident.dns_domain)
       IN /\ lookups' = Append(lookups, Looked("private", ident.dns_domain, r))
          /\ IF r.id = None
             THEN UNCHANGED <<records, dns, submitted>>
             ELSE /\ records' = Append(records,
                                       DnsChange(r.id, "A", ident.fqdn,
                                                 facts.private_ip))
                  /\ \E ok \in BOOLEAN :
                       change_record("UPSERT", r.id, "A", ident.fqdn,
                                     facts.private_ip, ok)
    /\ pc' = "private_aliases"
    /\ UNCHANGED <<zones, raw_tags, table, pending, event, facts, ident, todo,
                   retval, resolved, zl, dd>>

LooksOf(each) ==
    LET looked == SelectSeq(each, LAMBDA e : e.look.vis # "none")
    IN [i \in 1..Len(looked) |-> looked[i].look]

IdentitiesOf(each) ==
    [i \in 1..Len(each) |->
        [raw |-> each[i].raw, hostname |-> each[i].hostname,
         dns_domain |-> each[i].dns_domain, fqdn |-> each[i].fqdn]]

\* lines 224-232 and 267: the call of get_aliases before a loop
EnterAliases(at, alias_type, loop) ==
    /\ pc = at
    /\ LET a == get_aliases(zones, facts.vpc_id, event.region, Tags, AliasesTag,
                            alias_type, ident.dns_domain)
       IN IF a.raised
          THEN /\ Raise
               /\ UNCHANGED <<todo, lookups, resolved>>
          ELSE /\ todo' = a.settings
               /\ lookups' = lookups \o LooksOf(a.each)
               /\ resolved' = resolved \o IdentitiesOf(a.each)
               /\ pc' = loop
               /\ UNCHANGED <<retval, event>>
    /\ UNCHANGED <<zones, raw_tags, dns, table, pending, facts, ident, records,
                   submitted, zl, dd>>

AliasIteration_AppendOnSuccess(loop, ip) ==
    /\ pc = loop
    /\ todo # <<>>
    /\ LET settings == Head(todo)
       IN IF settings.zone_id = None
          THEN UNCHANGED <<records, dns, submitted>>
          ELSE \E ok \in BOOLEAN :
                 /\ change_record("UPSERT", settings.zone_id, "A",
                                  settings.fqdn, ip, ok)
                 /\ records' = IF ok
                               THEN Append(records,
                                           DnsChange(settings.zone_id, "A",
                                                     settings.fqdn, ip))
                               ELSE records
    /\ todo' = Tail(todo)
    /\ UNCHANGED <<zones, raw_tags, table, pending, pc, event, facts, ident,
                   retval, lookups, resolved, zl, dd>>

\* lines 233-244 and 268-279: one iteration of an alias loop
AliasIteration(loop, ip) ==
    /\ pc = loop
    /\ todo # <<>>
    /\ LET settings == Head(todo)
       IN IF settings.zone_id = None
          THEN UNCHANGED <<records, dns, submitted>>
          ELSE /\ records' = Append(records,
                                    DnsChange(settings.zone_id, "A",
                                              settings.fqdn, ip))
               /\ \E ok \in BOOLEAN :
                    change_record("UPSERT", settings.zone_id, "A",
                                  settings.fqdn, ip, ok)
    /\ todo' = Tail(todo)
    /\ UNCHANGED <<zones, raw_tags, table, pending, pc, event, facts, ident,
                   retval, lookups, resolved, zl, dd>>

GetPrivateAliases == EnterAliases("private_aliases", "private", "private_loop")

RegisterPrivateAlias == AliasIteration("private_loop", facts.private_ip)

\* lines 246-259
RegisterPtr ==
    /\ pc = "private_loop"
    /\ todo = <<>>
    /\ LET r == get_private_zone_id(zones, facts.vpc_id, event.region,
                                    ident.arpa_zone)
       IN /\ lookups' = Append(lookups, Looked("private", ident.arpa_zone, r))
          /\ IF r.id = None
             THEN UNCHANGED <<records, dns, submitted>>
             ELSE /\ records' = Append(records,
                                       DnsChange(r.id, "PTR", ident.ptr_record,
                                                 ident.fqdn \o <<".">>))
                  /\ \E ok \in BOOLEAN :
                       change_record("UPSERT", r.id, "PTR", ident.ptr_record,
                                     ident.fqdn \o <<".">>, ok)
    /\ pc' = "public_ip"
    /\ UNCHANGED <<zones, raw_tags, table, pending, event, facts, ident, todo,
                   retval, resolved, zl, dd>>

\* lines 261-263
ReturnNoPublicIp ==
    /\ pc = "public_ip"
    /\ facts.public_ip = None
    /\ Return("int", <<>>)
    /\ UNCHANGED <<zones, raw_tags, dns, table, pending, facts, ident, records,
                   todo, submitted, lookups, resolved, zl, dd>>

GetPublicAliases_Unguarded == EnterAliases("public_ip", "public", "public_loop")

GetPublicAliases ==
    /\ facts.public_ip # None
    /\ EnterAliases("public_ip", "public", "public_loop")

RegisterPublicAlias == AliasIteration("public_loop", facts.public_ip)

\* line 280
ReturnAfterPublic ==
    /\ pc = "public_loop"
    /\ todo = <<>>
    /\ Return("int", <<>>)
    /\ UNCHANGED <<zones, raw_tags, dns, table, pending, facts, ident, records,
                   todo, submitted, lookups, resolved, zl, dd>>

-----------------------------------------------------------------------------
(* lambda_function.py lines 87-101: the returned value is put under the     *)
(* instance id; ok is whether put_item accepted the item.                   *)

PutItem ==
    /\ pc = "put_item"
    /\ \E ok \in BOOLEAN :
         IF ok
         THEN /\ table' = { it \in table : it.InstanceId # event.instance_id }
                          \cup { [InstanceId |-> event.instance_id,
                                  Records |-> retval] }
              /\ event' = [event EXCEPT !.outcome = "registered"]
         ELSE /\ UNCHANGED table
              /\ event' = [event EXCEPT !.outcome = "raised"]
    /\ pc' = "done"
    /\ UNCHANGED <<zones, raw_tags, dns, pending, facts, ident, records, todo,
                   retval, submitted, lookups, resolved, zl, dd>>

Next ==
    \/ HandleOtherState
    \/ HandleDisabledAccount
    \/ HandleLeaving
    \/ HandleRunning
    \/ DescribeInstances
    \/ ResolveCanonical
    \/ RegisterCanonical
    \/ GetPrivateAliases
    \/ RegisterPrivateAlias
    \/ RegisterPtr
    \/ ReturnNoPublicIp
    \/ GetPublicAliases
    \/ RegisterPublicAlias
    \/ ReturnAfterPublic
    \/ PutItem

Spec == Init /\ [][Next]_vars

\* Several events for one instance, one after the other.
LifecycleTagLists ==
    { <<Tag(default_hostname_tag_name, S("web1")),
        Tag(default_dns_domain_tag_name, CorpInternal),
        Tag(AliasKey("private"), S("db")),
        Tag(AliasKey("public"), <<"www", ",", " ", "api">>)>>,
      <<Tag(S("Name"), Dot(S("web1"), CorpInternal)),
        Tag(AliasKey("private"), S("db"))>> }

LifecycleInit ==
    /\ zones = CorpZones
    /\ raw_tags \in LifecycleTagLists
    /\ dns = {}
    /\ table = {}
    /\ pending = MaxEvents
    /\ IdleRun
    /\ zl = NoLookup
    /\ dd = NoDomainCall

LifecycleSpec == LifecycleInit /\ [][Next]_vars

-----------------------------------------------------------------------------
(* Claims about a registration run *)

Validated == facts.vpc_id # None

Finished == pc \in {"put_item", "done"}

NoHostnameTags ==
    /\ DictGet(Tags, hostname_tag_name_account_tag, default_hostname_tag_name)
         \notin DOMAIN Tags
    /\ S("Name") \notin DOMAIN Tags

\* C1: after every identity resolution (canonical name and aliases) the fqdn
\* is hostname + "." + domain; a raw name "h.d" resolves to (h, d, "h.d").
C1_FqdnIsHostnameDotDomain ==
    \A i \in 1..Len(resolved) :
        LET r == resolved[i]
            parts == Split(r.raw, ".")
        IN /\ r.fqdn = Dot(r.hostname, r.dns_domain)
           /\ Len(parts) > 1 =>
                (r.hostname = parts[1] /\ r.dns_domain = Join(Tail(parts), ".")
                 /\ r.fqdn = r.raw)

\* C2: a run that passed validation, resolved a hostname and returns, returns
\* the list of the DnsChange entries it emitted, and that list is what is
\* persisted under the instance id.
C2_ReturnsEmittedList ==
    (Validated /\ Finished /\ ident.hostname # None /\ retval.kind # "raised") =>
        /\ retval = [kind |-> "list", list |-> records]
        /\ event.outcome = "registered" =>
             [InstanceId |-> event.instance_id,
              Records |-> [kind |-> "list", list |-> records]] \in table

\* C4: once the instance facts are validated, register_host does not raise,
\* whatever the tags.
C4_NoRaiseAfterValidation ==
    Validated => retval.kind # "raised"

\* C5: when the handling of an event of an instance leaving the running state
\* is over, none of the instance's records is left in the DNS service and no
\* item of the instance is left in the table.
C5_UnregisterRemoves ==
    event.outcome = "unregistered" =>
        /\ dns = {}
        /\ \A it \in table : it.InstanceId # event.instance_id

Labels(name) == Len(Split(name, "."))

\* C8: every name handed to a zone lookup has at least two labels and no
\* identity resolution yields a single-label domain.
C8_AtLeastTwoLabels ==
    /\ \A i \in 1..Len(lookups) : Labels(lookups[i].zone_name) >= 2
    /\ \A i \in 1..Len(resolved) : Labels(resolved[i].dns_domain) >= 2

\* The changes a run attempts when no submission fails, from the facts and
\* the identity of the run.
WithZone(settings) == SelectSeq(settings, LAMBDA e : e.zone_id # None)

PlannedAliases(alias_type, ip) ==
    LET with == WithZone(get_aliases(zones, facts.vpc_id, event.region, Tags,
                                     AliasesTag, alias_type,
                                     ident.dns_domain).settings)
    IN [i \in 1..Len(with) |->
          DnsChange(with[i].zone_id, "A", with[i].fqdn \o <<".">>, ip)]

PlannedPrivate(zone_name, type, name, data) ==
    LET r == get_private_zone_id(zones, facts.vpc_id, event.region, zone_name)
    IN IF r.id = None THEN <<>>
       ELSE <<DnsChange(r.id, type, name \o <<".">>, data)>>

Planned ==
    PlannedPrivate(ident.dns_domain, "A", ident.fqdn, facts.private_ip)
    \o PlannedAliases("private", facts.private_ip)
    \o PlannedPrivate(ident.arpa_zone, "PTR", ident.ptr_record,
                      ident.fqdn \o <<".">>)
    \o (IF facts.public_ip = None THEN <<>>
        ELSE PlannedAliases("public", facts.public_ip))

Attempted ==
    [i \in 1..Len(submitted) |->
        DnsChange(submitted[i].zone_id, submitted[i].type, submitted[i].name,
                  submitted[i].data)]

SomeFailed == \E i \in 1..Len(submitted) : ~submitted[i].ok

\* C9: whichever submissions fail, register_host does not raise and the run
\* attempts every record it attempts when none fails.
C9_FailuresDoNotAbort ==
    /\ SomeFailed => retval.kind # "raised"
    /\ (Finished /\ ident.hostname # None /\ retval.kind # "raised") =>
          Attempted = Planned

\* C10: a run for an instance with neither the hostname tag nor the "Name"
\* tag makes no zone lookup and no submission, does not raise and returns an
\* empty list.
C10_NoHostnameEmptyList ==
    (Validated /\ NoHostnameTags) =>
        /\ lookups = <<>>
        /\ submitted = <<>>
        /\ retval.kind # "raised"
        /\ Finished => retval = [kind |-> "list", list |-> <<>>]

C10_Witness ==
    /\ Validated
    /\ NoHostnameTags
    /\ pc = "done"
    /\ retval = [kind |-> "list", list |-> <<>>]
    /\ event.outcome = "registered"

-----------------------------------------------------------------------------
(* Environment of a stand-alone get_dns_domain call *)

DomainNameValues == <<CorpInternal, ExampleCom, S("local"), S("lan")>>

DhcpConfigLists ==
    { <<[Key |-> S("domain-name-servers"), Values |-> <<S("AmazonProvidedDNS")>>]>> }
    \cup { <<[Key |-> S("domain-name-servers"),
              Values |-> <<S("AmazonProvidedDNS")>>],
             [Key |-> S("domain-name"),
              Values |-> SubSeq(DomainNameValues, 1, k)]>> : k \in 0..MaxCount }

DhcpAnswers ==
    { [Vpcs |-> [i \in 1..nv |-> [DhcpOptionsId |-> None]],
       DhcpOptions |-> <<>>] : nv \in 0..MaxCount }
    \cup { [Vpcs |-> [i \in 1..nv |-> [DhcpOptionsId |-> S("dopt-1")]],
            DhcpOptions |-> [i \in 1..no |-> [DhcpConfigurations |-> cfg]]] :
             nv \in 0..MaxCount, no \in 0..MaxCount, cfg \in DhcpConfigLists }

DomainCallTagLists ==
    { <<>>,
      <<Tag(default_dns_domain_tag_name, ExampleCom)>>,
      <<Tag(dns_domain_tag_name_account_tag, S("mydomain")),
        Tag(S("mydomain"), S("local"))>>,
      <<Tag(dns_domain_tag_name_account_tag, S("mydomain")),
        Tag(default_dns_domain_tag_name, ExampleCom)>> }

DomainInit ==
    /\ zones = <<>>
    /\ raw_tags \in DomainCallTagLists
    /\ dns = {}
    /\ table = {}
    /\ pending = 0
    /\ IdleRun
    /\ zl = NoLookup
    /\ \E r \in Regions, ec2 \in DhcpAnswers :
         dd = [NoDomainCall EXCEPT !.phase = "input", !.region = r, !.ec2 = ec2]

DomainCall ==
    /\ dd.phase = "input"
    /\ LET r == get_dns_domain(dd.ec2, dd.region, tags_to_dict(raw_tags))
       IN dd' = [dd EXCEPT !.phase = "done", !.domain = r.domain,
                           !.dhcp_queried = r.dhcp_queried]
    /\ UNCHANGED <<zones, raw_tags, dns, table, pending, pc, event, facts,
                   ident, records, todo, retval, submitted, lookups, resolved,
                   zl>>

DomainNext == DomainCall

DomainSpec == DomainInit /\ [][DomainNext]_vars

\* The tag get_dns_domain reads: the one the indirection tag names, or the
\* default domain tag when the instance has no indirection tag.
DomainTagRead(tags) ==
    IF dns_domain_tag_name_account_tag \in DOMAIN tags
    THEN tags[dns_domain_tag_name_account_tag]
    ELSE default_dns_domain_tag_name

DomainNameConfigs(ec2) ==
    SelectSeq(ec2.DhcpOptions[1].DhcpConfigurations,
              LAMBDA c : c.Key = S("domain-name"))

ExactlyOneOfEach(ec2) ==
    /\ Len(ec2.Vpcs) = 1
    /\ Len(ec2.DhcpOptions) = 1
    /\ Len(DomainNameConfigs(ec2)) = 1
    /\ Len(DomainNameConfigs(ec2)[1].Values) = 1

\* C11: get_dns_domain always returns a domain: the value of the domain tag
\* when the instance carries it, without any DHCP query; otherwise the DHCP
\* domain-name when exactly one VPC, one option set and one domain-name value
\* are found, and "<region>.compute.internal" on any other cardinality.
C11_DomainPrecedence ==
    dd.phase = "done" =>
        LET tags == tags_to_dict(raw_tags)
        IN /\ dd.domain # None
           /\ IF DomainTagRead(tags) \in DOMAIN tags
              THEN dd.domain = tags[DomainTagRead(tags)] /\ ~dd.dhcp_queried
              ELSE /\ dd.dhcp_queried
                   /\ IF ExactlyOneOfEach(dd.ec2)
                      THEN dd.domain = DomainNameConfigs(dd.ec2)[1].Values[1]
                      ELSE dd.domain = DefaultDomain(dd.region)

C11_Witness ==
    /\ dd.phase = "done"
    /\ raw_tags = <<>>
    /\ ExactlyOneOfEach(dd.ec2)
    /\ dd.dhcp_queried
    /\ dd.domain = CorpInternal

C11_WitnessFallback ==
    /\ dd.phase = "done"
    /\ raw_tags = <<>>
    /\ Len(dd.ec2.Vpcs) = 1
    /\ Len(dd.ec2.DhcpOptions) = 1
    /\ Len(DomainNameConfigs(dd.ec2)) = 1
    /\ Len(DomainNameConfigs(dd.ec2)[1].Values) = 2
    /\ dd.domain = DefaultDomain(dd.region)

-----------------------------------------------------------------------------
(* What the zone lookups are expected to return *)

Qualifies(z, vis, vpc_id) ==
    IF vis = "public" THEN ~z.PrivateZone
    ELSE z.PrivateZone /\ vpc_id \in z.VPCs

Candidate(parts, k) == Join(SubSeq(parts, k, Len(parts)), ".") \o <<".">>

QualifyingAt(parts, k, vis, vpc_id) ==
    { i \in 1..Len(zones) :
        zones[i].Name = Candidate(parts, k) /\ Qualifies(zones[i], vis, vpc_id) }

MatchingDepths(parts, vis, vpc_id) ==
    { k \in 1..(Len(parts) - 1) : QualifyingAt(parts, k, vis, vpc_id) # {} }

Longest(ks) == CHOOSE k \in ks : \A j \in ks : k <= j

LongestSuffixFirst ==
    LET parts == Split(zl.zone_name, ".")
        ks == MatchingDepths(parts, zl.vis, zl.vpc_id)
    IN IF ks = {} THEN zl.id = None
       ELSE \E i \in QualifyingAt(parts, Longest(ks), zl.vis, zl.vpc_id) :
               zones[i].Id = zl.id

ZoneOf(id) == { i \in 1..Len(zones) : zones[i].Id = id }

QueriedUnattached ==
    \E q \in 1..Len(zl.queried) :
        \E i \in ZoneOf(zl.queried[q]) : zl.vpc_id \notin zones[i].VPCs

\* C7: a private lookup never returns a public zone or a zone that is not
\* attached to the given VPC; and when the scan meets a name-matching private
\* zone that is not attached while an attached private zone exists for some
\* suffix of two or more labels, an attached zone is still returned.
C7_PrivateOnlyAttached ==
    (zl.phase = "done" /\ zl.vis = "private") =>
        /\ zl.id # None =>
             \E i \in ZoneOf(zl.id) :
                zones[i].PrivateZone /\ zl.vpc_id \in zones[i].VPCs
        /\ (QueriedUnattached
            /\ MatchingDepths(Split(zl.zone_name, "."), "private", zl.vpc_id) # {})
              => \E i \in ZoneOf(zl.id) :
                    zones[i].PrivateZone /\ zl.vpc_id \in zones[i].VPCs

C7_Witness ==
    /\ zl.phase = "done"
    /\ zl.vis = "private"
    /\ Len(zones) = 2
    /\ zones[1].Name = zones[2].Name
    /\ zones[1].PrivateZone
    /\ zl.vpc_id \notin zones[1].VPCs
    /\ zl.queried = <<zones[1].Id, zones[2].Id>>
    /\ zl.id = zones[2].Id

\* C3: a private lookup of the region's default domain "<region>.compute.internal"
\* returns not-found without listing the hosted zones or querying any zone's
\* VPC attachments.
C3_DefaultDomainSkipped ==
    (zl.phase = "done" /\ zl.vis = "private"
     /\ zl.zone_name = DefaultDomain(zl.region)) =>
        (zl.id = None /\ ~zl.listed /\ zl.queried = <<>>)

-----------------------------------------------------------------------------
(* Further claims about a registration run *)

PublicAliasesKey == Slash(AliasesTag, S("public"))

PublicTokens ==
    LET toks == Split(Tags[PublicAliasesKey], ",")
    IN [i \in 1..Len(toks) |-> Strip(toks[i])]

\* The public aliases tag is a list of distinct bare tokens without
\* per-alias hostname or zone id tags.
BarePublicAliases ==
    /\ PublicAliasesKey \in DOMAIN Tags
    /\ \A i \in 1..Len(PublicTokens) :
         /\ PublicTokens[i] # <<>>
         /\ Labels(PublicTokens[i]) = 1
         /\ \A j \in 1..Len(PublicTokens) :
              PublicTokens[i] = PublicTokens[j] => i = j
         /\ Slash(Slash(PublicAliasesKey, PublicTokens[i]), S("hostname"))
              \notin DOMAIN Tags
         /\ Slash(Slash(PublicAliasesKey, PublicTokens[i]), S("zone_id"))
              \notin DOMAIN Tags

PublicSubmitted ==
    SelectSeq(submitted, LAMBDA c : c.data = facts.public_ip)

RunOver == pc = "done" /\ event.state = "running" /\ Validated

PublicAliasCase ==
    /\ RunOver
    /\ ident.hostname # None
    /\ facts.public_ip # None
    /\ BarePublicAliases
    /\ MatchingDepths(Split(ident.dns_domain, "."), "public", facts.vpc_id) # {}

OnePublicRecordPerToken ==
    /\ Len(PublicSubmitted) = Len(PublicTokens)
    /\ \A i \in 1..Len(PublicTokens) :
         /\ PublicSubmitted[i].type = "A"
         /\ PublicSubmitted[i].action = "UPSERT"
         /\ PublicSubmitted[i].name
              = Dot(PublicTokens[i], ident.dns_domain) \o <<".">>

\* C12: for an instance with a public IP whose public aliases tag lists n
\* distinct bare tokens without overrides, and a public zone matching the
\* instance domain, the run submits exactly n A records valued with the
\* public IP, named "<token>.<domain>" in the order of the tokens.
C12_PublicAliasPerToken ==
    PublicAliasCase => OnePublicRecordPerToken

PrivateAliasesKey == Slash(AliasesTag, S("private"))

PrivateTokenCount ==
    IF PrivateAliasesKey \in DOMAIN Tags
    THEN Len(Split(Tags[PrivateAliasesKey], ","))
    ELSE 0

\* The private records of a run, whatever the public IP: canonical A, the
\* private aliases, PTR.
PlannedPrivateRecords ==
    PlannedPrivate(ident.dns_domain, "A", ident.fqdn, facts.private_ip)
    \o PlannedAliases("private", facts.private_ip)
    \o PlannedPrivate(ident.arpa_zone, "PTR", ident.ptr_record,
                      ident.fqdn \o <<".">>)

PrivateAttempted ==
    LET private == SelectSeq(submitted, LAMBDA c : c.data # facts.public_ip)
    IN [i \in 1..Len(private) |->
          DnsChange(private[i].zone_id, private[i].type, private[i].name,
                    private[i].data)]

PastPtr == pc \in {"public_ip", "public_loop"} \/ retval.kind = "int"

\* C13: a run for an instance without public IP never enters the public
\* alias stage: it resolves no public alias, looks up no public zone and
\* submits nothing but the private records; and once the PTR step is done
\* the private records attempted are those of the same instance with a
\* public IP (the canonical A, the private aliases, the PTR); before that,
\* and in a run that raises, they are the first of those records.
C13_NoPublicWithoutIp ==
    /\ (Validated /\ facts.public_ip = None) =>
          /\ pc # "public_loop"
          /\ \A i \in 1..Len(lookups) : lookups[i].vis # "public"
          /\ Len(resolved) <= 1 + PrivateTokenCount
          /\ \A i \in 1..Len(submitted) :
                \/ submitted[i].type = "A" /\ submitted[i].data = facts.private_ip
                \/ submitted[i].type = "PTR"
                   /\ submitted[i].data = ident.fqdn \o <<".">>
          /\ PastPtr => Attempted = PlannedPrivateRecords
    /\ (Validated /\ PastPtr) => PrivateAttempted = PlannedPrivateRecords
    /\ (Validated /\ ident.hostname # None) =>
          /\ Len(PrivateAttempted) <= Len(PlannedPrivateRecords)
          /\ PrivateAttempted
               = SubSeq(PlannedPrivateRecords, 1, Len(PrivateAttempted))

C13_Witness ==
    /\ Validated
    /\ facts.public_ip = None
    /\ PublicAliasesKey \in DOMAIN Tags
    /\ pc = "done"
    /\ retval.kind = "int"
    /\ Len(submitted) = 3
    /\ submitted[3].type = "PTR"

====
